---- MODULE Spec2Model ----
(***************************************************************************)
(* pygame-slideshow (src/main.py): the content catalog built by            *)
(* load_content, the hot-reload handler that rebuilds it on the watcher    *)
(* thread, the playback loop, and the four transition functions.           *)
(***************************************************************************)
EXTENDS Integers, Sequences, FiniteSets, TLC

\* ------------------------------------------------------------------ bounds

\* Iterations of the image hold loop before SLIDE_DURATION has elapsed.
HoldTicks == 1
\* Frames a video reader yields.
VideoFrames == 2
\* Largest TRANSITION_DURATION drawn, in half seconds.
MaxHalves == 4
\* Largest TRANSITION_FPS drawn.
MaxFps == 8
\* Smallest and largest screen width and height drawn, in pixels.
MinDim == 7
MaxDim == 9
\* Longest catalog the cursor is advanced around.
MaxCatalog == 6
\* Longest footer.txt drawn, in characters.
MaxFooter == 4

\* --------------------------------------------------------------- constants

\* transition_dissolve, fast mode: transition_steps = 8.
FastDissolveSteps == 8
\* transition_dissolve: block_size = 8 if USE_FAST_TRANSITIONS else 4.
FastBlockSize == 8
NormalBlockSize == 4

TransitionNames == {"fade", "slide", "dissolve", "zoom"}

\* ------------------------------------------------------- the content directory

\* The file names a content directory may hold, in the order sorted() gives.
FileNames ==
    <<"a.jpg", "b.png", "c.mp4", "d.jpg", "e.mp4", "f.png", "footer.txt">>

\* file.lower().endswith(...): the branch of load_content a name takes.
FileKind(f) ==
    CASE f \in {"a.jpg", "b.png", "d.jpg", "f.png"} -> "image"
      [] f \in {"c.mp4", "e.mp4"} -> "video"
      [] OTHER -> "other"

\* Files pygame.image.load / imageio.get_reader raise on.
Corrupt == {"d.jpg", "e.mp4"}

\* The directories os.listdir may find.
DirSet == { {}, {"a.jpg", "d.jpg"}, {"a.jpg", "b.png", "c.mp4"} }

\* sorted(os.listdir(SLIDE_DIR)) of directory d.
SortedListing(d) == SelectSeq(FileNames, LAMBDA f : f \in d)

\* The slide load_content appends for a valid file.
SlideOf(f) == [type |-> FileKind(f), file |-> f]

\* One pass of the for loop body over a listing, with nothing interleaved:
\* the catalog a complete build of directory d yields.
RECURSIVE BuildFrom(_, _)
BuildFrom(listing, acc) ==
    IF listing = <<>> THEN acc
    ELSE LET f == Head(listing) IN
         BuildFrom(Tail(listing),
                   IF FileKind(f) \in {"image", "video"} /\ f \notin Corrupt
                   THEN Append(acc, SlideOf(f)) ELSE acc)

CompleteCatalog(d) == BuildFrom(SortedListing(d), <<>>)

\* ------------------------------------------------------------- the footer file

\* The characters of a footer file: a printing character, a blank, a newline.
Chars == {"x", " ", "\n"}

\* The content of a footer.txt that open(...).read() raises on.
Undecodable == <<"?">>

\* The texts of at most n characters.
Texts(n) == UNION { [1..k -> Chars] : k \in 0..n }

\* str.strip(): leading and trailing whitespace removed.
IsSpace(c) == c \in {" ", "\n"}

RECURSIVE LStrip(_)
LStrip(s) == IF s # <<>> /\ IsSpace(Head(s)) THEN LStrip(Tail(s)) ELSE s

RECURSIVE RStrip(_)
RStrip(s) ==
    IF s # <<>> /\ IsSpace(s[Len(s)]) THEN RStrip(SubSeq(s, 1, Len(s) - 1)) ELSE s

Strip(s) == RStrip(LStrip(s))

\* str.split('\n'): the pieces between the newlines, at least one piece.
RECURSIVE SplitLines(_)
SplitLines(s) ==
    IF \A i \in 1..Len(s) : s[i] # "\n" THEN <<s>>
    ELSE LET k == CHOOSE i \in 1..Len(s) :
                    s[i] = "\n" /\ \A j \in 1..(i - 1) : s[j] # "\n"
         IN  <<SubSeq(s, 1, k - 1)>> \o SplitLines(SubSeq(s, k + 1, Len(s)))

\* A footer that keeps the blank lines.
FooterLinesUnfiltered(text) == SplitLines(Strip(text))

\* Lines 238-239: footer_text = f.read().strip();
\* footer_lines = [line for line in footer_text.split('\n') if line.strip()]
FooterLines(text) ==
    SelectSeq(SplitLines(Strip(text)), LAMBDA line : Strip(line) # <<>>)

\* ------------------------------------------------------ the transition engine

\* int(TRANSITION_DURATION * TRANSITION_FPS), the duration given in half
\* seconds (halves / 2 is exact in binary floating point).
TransitionSteps(halves, fps) == (halves * fps) \div 2

\* (N, step) where the double 255 * (1 - step / N) falls just below the
\* integer 255 * (N - step) / N, so that int() truncates to one less
\* (IEEE-754 double arithmetic, N up to 40).
FloatShortfall ==
    { <<5,4>>, <<10,8>>, <<15,12>>, <<15,13>>, <<15,14>>, <<17,5>>, <<17,6>>,
      <<17,11>>, <<17,12>>, <<20,16>>, <<25,20>>, <<30,24>>, <<30,26>>,
      <<30,28>>, <<34,10>>, <<34,12>>, <<34,22>>, <<34,24>>, <<35,28>>,
      <<40,32>> }

\* A fade that blends the wrong way round: alpha grows with the step.
FadeAlphaRising(n, step) == (255 * step) \div n

\* int(255 * (1 - step / transition_steps))
FadeAlpha(n, step) ==
    ((255 * (n - step)) \div n) - (IF <<n, step>> \in FloatShortfall THEN 1 ELSE 0)

\* transition_fade: the list alphas.
FadeAlphas(n, fastMode) ==
    IF fastMode THEN <<200, 128, 64>>
    ELSE [i \in 1..n |-> FadeAlpha(n, i - 1)]

\* transition_slide: the list positions, each progress a fraction <<num, den>>.
SlidePositions(n, fastMode) ==
    IF fastMode THEN <<(<<1, 4>>), (<<2, 4>>), (<<3, 4>>), (<<4, 4>>)>>
    ELSE [i \in 1..n |-> <<i - 1, n>>]

\* transition_zoom: the list scales, each a fraction <<num, den>>.
ZoomScales(n, fastMode) ==
    IF fastMode THEN <<(<<3, 4>>), (<<2, 4>>), (<<1, 4>>), (<<0, 4>>)>>
    ELSE [i \in 1..n |-> <<n - (i - 1), n>>]

\* transition_zoom: scaled_surfaces holds an entry for each scale > 0.
ZoomShown(n, fastMode) == SelectSeq(ZoomScales(n, fastMode), LAMBDA s : s[1] > 0)

\* transition_dissolve: block_size, blocks_x, blocks_y and the list blocks.
BlockSize(fastMode) == IF fastMode THEN FastBlockSize ELSE NormalBlockSize

BlockList(size, fastMode) ==
    LET bs == BlockSize(fastMode)
        bx == size[1] \div bs
        by == size[2] \div bs
    IN  [i \in 1..(bx * by) |-> << ((i - 1) \div by) * bs, ((i - 1) % by) * bs >>]

\* random.shuffle(blocks): every order of the list.
Shuffles(s) ==
    { [i \in 1..Len(s) |-> s[p[i]]] :
        p \in { q \in [1..Len(s) -> 1..Len(s)] :
                  \A i, j \in 1..Len(s) : i # j => q[i] # q[j] } }

\* transition_dissolve: transition_steps.
DissolveSteps(n, fastMode) == IF fastMode THEN FastDissolveSteps ELSE n

\* The pixels of a surface of the screen's size.
Pixels(size) == (0..(size[1] - 1)) \X (0..(size[2] - 1))

\* work_surf.blit(next_surf, (x, y), Rect(x, y, block_size, block_size)):
\* the pixels of the surface the block at b covers.
BlockPixels(b, size, fastMode) ==
    { p \in Pixels(size) :
        /\ b[1] <= p[1] /\ p[1] < b[1] + BlockSize(fastMode)
        /\ b[2] <= p[2] /\ p[2] < b[2] + BlockSize(fastMode) }

\* transition_dissolve, step `step` (0-based): start_idx and end_idx.
DissolveStart(step, nblocks, steps) == step * (nblocks \div steps)

DissolveEnd(step, nblocks, steps) ==
    IF step < steps - 1 THEN DissolveStart(step, nblocks, steps) + (nblocks \div steps)
    ELSE nblocks

\* Frames drawn with no call of render_overlays.
DrawCallsBare(kind) ==
    CASE kind \in {"image", "video", "dissolve"} -> <<"blit", "flip">>
      [] kind \in {"fade", "slide"} -> <<"blit", "blit", "flip">>
      [] kind = "zoom" -> <<"fill", "blit", "blit", "flip">>
      [] OTHER -> <<>>

\* The calls that draw on the screen and present it, for one frame of each
\* kind: the image display (448-450), a video frame (489-491), one step of
\* fade (309-315), slide (328-331), dissolve (365-367) and zoom (401-405).
DrawCalls(kind) ==
    CASE kind \in {"image", "video", "dissolve"} ->
            <<"blit", "render_overlays", "flip">>
      [] kind \in {"fade", "slide"} ->
            <<"blit", "blit", "render_overlays", "flip">>
      [] kind = "zoom" -> <<"fill", "blit", "blit", "render_overlays", "flip">>
      [] OTHER -> <<>>

\* The number of frames a transition function displays.
FrameCount(t, n, fastMode) ==
    CASE t = "fade" -> Len(FadeAlphas(n, fastMode))
      [] t = "slide" -> Len(SlidePositions(n, fastMode))
      [] t = "dissolve" -> DissolveSteps(n, fastMode)
      [] t = "zoom" -> Len(ZoomShown(n, fastMode))

\* -------------------------------------------------------------------- state

VARIABLES
    \* configuration (config.yaml), fixed while the program runs
    USE_FAST_TRANSITIONS, TRANSITION_DURATION, TRANSITION_FPS,
    AVAILABLE_TRANSITIONS, screen_size,
    \* environment: the content directory, the pygame event queue (a stop
    \* event is queued), the characters of footer.txt, a modification event
    \* of the directory waits for the observer thread (recorded by DirShrink)
    dir, events, footer_text, modified,
    \* the module globals
    slides, footer_lines, running, current_slide,
    \* load_content, per calling thread: where it is, what is left to scan,
    \* and the files the call has logged "Error loading slide" for
    lpc, lfiles, logged,
    \* the playback loop: position, the branch that called load_content, locals
    \* and whether the decoder the local reader names is open
    pc, handler, slide, next_index, next_slide, held, vpos, reader,
    \* the transition function that is running
    trans_type, tstep, blocks, work_surf, frame,
    \* history: a stop event was raised; the transition step it arrived at
    \* (recorded by RaiseStopAt);
    \* load_content has written slides since the loop read its current slide;
    \* the values the cursor has taken (recorded by WrapAdvance)
    stopRaised, stopAt, reloaded, visited

configVars == <<USE_FAST_TRANSITIONS, TRANSITION_DURATION, TRANSITION_FPS,
                AVAILABLE_TRANSITIONS, screen_size>>
envVars == <<dir, events, footer_text, modified>>
loadVars == <<slides, footer_lines, lpc, lfiles, logged>>
loopVars == <<running, current_slide, pc, handler, slide, next_index,
              next_slide, held, vpos, reader>>
transVars == <<trans_type, tstep, blocks, work_surf, frame>>
histVars == <<stopRaised, stopAt, reloaded, visited>>
vars == <<configVars, envVars, loadVars, loopVars, transVars, histVars>>

Threads == {"main", "watcher"}

NoSlide == [type |-> "none", file |-> ""]
NoFrame == [type |-> "none", step |-> 0, val |-> <<0, 0>>, calls |-> <<>>]

\* transition_steps of the running configuration.
Steps == TransitionSteps(TRANSITION_DURATION, TRANSITION_FPS)

\* ------------------------------------------------------------- load_content

\* load_content as run by thread t, one loop iteration per step.  lpc[t]:
\* "idle" (not running), "start" (called, on the main thread), "scan" (in
\* the for loop, then the tail).

\* The step that runs the footer and QR tail (lines 232-265) and returns.
LoadReturns(t) == lpc[t] = "scan" /\ lfiles[t] = <<>>

\* The positions of the playback loop between its read of the current slide
\* (line 444) and its cursor advance (line 507).
InPass ==
    pc \in {"show", "hold", "calc_next", "read_next", "choose", "trans",
            "vopen", "vplay", "vclose", "advance"}

\* Lines 211-213: slides = [] rebinds the module global, then
\* sorted(os.listdir(SLIDE_DIR)); when the directory cannot be listed
\* (listable = FALSE) the exception leaves load_content.
LoadStart(t, listable) ==
    /\ slides' = <<>>
    /\ reloaded' = InPass
    /\ logged' = [logged EXCEPT ![t] = <<>>]
    /\ UNCHANGED footer_lines
    /\ IF listable
       THEN /\ lfiles' = [lfiles EXCEPT ![t] = SortedListing(dir)]
            /\ lpc' = [lpc EXCEPT ![t] = "scan"]
       ELSE /\ lpc' = [lpc EXCEPT ![t] = "idle"]
            /\ UNCHANGED lfiles

\* A loader that appends every image and video name, loadable or not.
LoadAppendsAny(f) == FileKind(f) \in {"image", "video"}

\* Lines 214-230, one file: a valid image or video is appended to the list the
\* global slides names now; a file that fails to load (corrupt, or removed
\* since the listing) is logged and skipped; any other name is passed over.
LoadAppends(f) == FileKind(f) \in {"image", "video"} /\ f \in dir /\ f \notin Corrupt

LoadFile(t) ==
    /\ lpc[t] = "scan"
    /\ lfiles[t] # <<>>
    /\ slides' = IF LoadAppends(Head(lfiles[t]))
                 THEN Append(slides, SlideOf(Head(lfiles[t])))
                 ELSE slides
    /\ reloaded' = (reloaded \/ (InPass /\ LoadAppends(Head(lfiles[t]))))
    /\ logged' = IF FileKind(Head(lfiles[t])) \in {"image", "video"}
                     /\ ~LoadAppends(Head(lfiles[t]))
                  THEN [logged EXCEPT ![t] = Append(@, Head(lfiles[t]))]
                  ELSE logged
    /\ lfiles' = [lfiles EXCEPT ![t] = Tail(lfiles[t])]
    /\ UNCHANGED <<lpc, footer_lines>>

\* Lines 232-265: footer and QR code, then return.  footer_lines is emptied,
\* then set from footer.txt when the file exists and can be read.
LoadOverlays(t) ==
    /\ lpc[t] = "scan"
    /\ lfiles[t] = <<>>
    /\ footer_lines' = IF "footer.txt" \in dir /\ footer_text # Undecodable
                        THEN FooterLines(footer_text)
                        ELSE <<>>
    /\ lpc' = [lpc EXCEPT ![t] = "idle"]
    /\ logged' = [logged EXCEPT ![t] = <<>>]
    /\ UNCHANGED <<slides, lfiles, reloaded>>

load_content(t, listable) ==
    \/ lpc[t] = "start" /\ LoadStart(t, listable)
    \/ LoadFile(t) /\ listable
    \/ LoadOverlays(t) /\ listable

\* ------------------------------------------------- the hot-reload handler

\* ReloadHandler.on_modified, dispatched by the observer thread one event at
\* a time, for any modification in the directory: it calls load_content,
\* which runs up to its listing of the directory.
on_modified ==
    /\ lpc["watcher"] = "idle"
    /\ \E listable \in BOOLEAN :
         LoadStart("watcher", listable)
    /\ UNCHANGED <<configVars, envVars, loopVars, transVars, stopRaised, stopAt,
                   visited>>

\* The rest of the load_content call of on_modified.
WatcherStep ==
    /\ lpc["watcher"] = "scan"
    /\ \/ LoadFile("watcher")
       \/ LoadOverlays("watcher")
    /\ UNCHANGED <<configVars, envVars, loopVars, transVars, stopRaised, stopAt,
                   visited>>

\* ------------------------------------------------------------ environment

\* Files are added to or removed from the content directory.
DirChange ==
    /\ \E d \in DirSet : d # dir /\ dir' = d
    /\ UNCHANGED <<configVars, events, footer_text, modified, loadVars,
                   loopVars, transVars, histVars>>

\* Quit, Escape or the quit key combination is posted to the event queue.
StopEvent ==
    /\ ~stopRaised
    /\ events' = TRUE
    /\ stopRaised' = TRUE
    /\ UNCHANGED <<configVars, dir, footer_text, modified, loadVars, loopVars,
                   transVars, reloaded, visited>>

RaiseStop == StopEvent /\ UNCHANGED stopAt

\* The same, with the step of the running transition it arrives at recorded.
RaiseStopAt == StopEvent /\ stopAt' = IF pc = "trans" THEN tstep ELSE -1

\* ------------------------------------------------ the transition functions

\* Line 353: blocks_per_step = len(blocks) // transition_steps raises
\* ZeroDivisionError when transition_steps is 0.
TransitionRaises(t) ==
    t = "dissolve" /\ DissolveSteps(Steps, USE_FAST_TRANSITIONS) = 0

\* The frame a transition function displays at step i (0-based).
FrameAt(t, i) ==
    [type |-> t, step |-> i, calls |-> DrawCalls(t),
     val |-> CASE t = "fade" ->
                    <<FadeAlphas(Steps, USE_FAST_TRANSITIONS)[i + 1], 255>>
               [] t = "slide" -> SlidePositions(Steps, USE_FAST_TRANSITIONS)[i + 1]
               [] t = "zoom" -> ZoomShown(Steps, USE_FAST_TRANSITIONS)[i + 1]
               [] t = "dissolve" ->
                    <<DissolveEnd(i, Len(blocks),
                                  DissolveSteps(Steps, USE_FAST_TRANSITIONS)),
                      Len(blocks)>>]

\* Lines 360-363: the pixels of next_surf copied into work_surf at step i.
DissolveCopied(i) ==
    LET n == DissolveSteps(Steps, USE_FAST_TRANSITIONS)
    IN  UNION { BlockPixels(blocks[j + 1], screen_size, USE_FAST_TRANSITIONS) :
                  j \in DissolveStart(i, Len(blocks), n)
                        .. (DissolveEnd(i, Len(blocks), n) - 1) }

\* The part of a transition function before its frame loop: the step lists,
\* and for dissolve the shuffled blocks and work_surf = current_surf.copy().
TransitionBegin(t) ==
    /\ trans_type' = t
    /\ tstep' = 0
    /\ blocks' \in IF t = "dissolve"
                   THEN Shuffles(BlockList(screen_size, USE_FAST_TRANSITIONS))
                   ELSE {<<>>}
    /\ work_surf' = {}
    /\ frame' = NoFrame

\* One iteration of the frame loop: draw, render_overlays, flip, clock.tick.
TransitionFrame ==
    /\ tstep < FrameCount(trans_type, Steps, USE_FAST_TRANSITIONS)
    /\ frame' = FrameAt(trans_type, tstep)
    /\ work_surf' = IF trans_type = "dissolve"
                    THEN work_surf \cup DissolveCopied(tstep)
                    ELSE work_surf
    /\ tstep' = tstep + 1
    /\ UNCHANGED <<trans_type, blocks>>

TransitionDone == tstep = FrameCount(trans_type, Steps, USE_FAST_TRANSITIONS)

\* ------------------------------------------------------- the playback loop

Terminated == {"done", "crashed"}

\* A cursor that stays where it is.
NextCursorStuck(cursor, length) == cursor % length

\* Lines 469 and 507: (current_slide + 1) % len(slides).
NextCursor(cursor, length) == (cursor + 1) % length

\* for event in pygame.event.get(): a queued stop event clears running.
PollEvents ==
    /\ running' = IF events THEN FALSE ELSE running
    /\ events' = FALSE

\* The locals of a pass are dead once the pass ends: they are reassigned
\* before the next read.
ResetLocals ==
    /\ slide' = NoSlide
    /\ next_index' = 0
    /\ next_slide' = NoSlide
    /\ held' = 0
    /\ vpos' = 0
    /\ reloaded' = FALSE
    /\ trans_type' = "none"
    /\ tstep' = 0
    /\ blocks' = <<>>
    /\ work_surf' = {}
    /\ frame' = NoFrame

\* An exception raised inside the try block: control moves to line 511.
Raise ==
    /\ pc' = "except"
    /\ ResetLocals
    /\ UNCHANGED <<running, current_slide, handler, reader>>

\* Line 441: while running.
LoopTest ==
    /\ pc = "loop"
    /\ pc' = IF running THEN "top" ELSE "done"
    /\ UNCHANGED <<configVars, envVars, loadVars, running, current_slide,
                   handler, slide, next_index, next_slide, held, vpos, reader,
                   transVars, histVars>>

\* Line 443: if slides.
EmptyTest ==
    /\ pc = "top"
    /\ pc' = IF slides # <<>> THEN "select" ELSE "nocontent"
    /\ UNCHANGED <<configVars, envVars, loadVars, running, current_slide,
                   handler, slide, next_index, next_slide, held, vpos, reader,
                   transVars, histVars>>

\* Line 444: slide = slides[current_slide], IndexError when out of range.
Select ==
    /\ pc = "select"
    /\ IF current_slide < Len(slides)
       THEN /\ slide' = slides[current_slide + 1]
            /\ reloaded' = FALSE
            /\ pc' = IF slides[current_slide + 1].type = "image"
                     THEN "show" ELSE "vopen"
            /\ UNCHANGED <<running, current_slide, handler, next_index,
                           next_slide, held, vpos, reader, transVars>>
       ELSE Raise
    /\ UNCHANGED <<configVars, envVars, loadVars, stopRaised, stopAt, visited>>

\* Lines 448-453: show the image with its overlays, start the hold.
Show ==
    /\ pc = "show"
    /\ frame' = [type |-> "image", step |-> 0, val |-> <<0, 0>>,
                 calls |-> DrawCalls("image")]
    /\ held' = 0
    /\ pc' = "hold"
    /\ UNCHANGED <<configVars, envVars, loadVars, running, current_slide,
                   handler, slide, next_index, next_slide, vpos, reader, trans_type,
                   tstep, blocks, work_surf, histVars>>

\* Lines 454-463: one iteration of the hold loop polls the events.
HoldPoll ==
    /\ pc = "hold"
    /\ held < HoldTicks /\ running
    /\ PollEvents
    /\ held' = held + 1
    /\ UNCHANGED <<configVars, dir, footer_text, modified, loadVars, current_slide,
                   pc, handler, slide, next_index, next_slide, vpos, reader,
                   transVars, histVars>>

\* Lines 454 and 465-466: the hold ends; break when running is cleared.
HoldEnd ==
    /\ pc = "hold"
    /\ ~(held < HoldTicks /\ running)
    /\ pc' = IF running THEN "calc_next" ELSE "done"
    /\ UNCHANGED <<configVars, envVars, loadVars, running, current_slide,
                   handler, slide, next_index, next_slide, held, vpos, reader,
                   transVars, histVars>>

\* Line 469: next_index = (current_slide + 1) % len(slides).
CalcNext ==
    /\ pc = "calc_next"
    /\ IF Len(slides) # 0
       THEN /\ next_index' = NextCursor(current_slide, Len(slides))
            /\ pc' = "read_next"
            /\ UNCHANGED <<running, current_slide, handler, slide, next_slide,
                           held, vpos, reader, transVars, reloaded>>
       ELSE Raise
    /\ UNCHANGED <<configVars, envVars, loadVars, stopRaised, stopAt, visited>>

\* Lines 470-471: next_slide = slides[next_index].
ReadNext ==
    /\ pc = "read_next"
    /\ IF next_index < Len(slides)
       THEN /\ next_slide' = slides[next_index + 1]
            /\ pc' = IF slides[next_index + 1].type = "image"
                     THEN "choose" ELSE "advance"
            /\ UNCHANGED <<running, current_slide, handler, slide, next_index,
                           held, vpos, reader, transVars, reloaded>>
       ELSE Raise
    /\ UNCHANGED <<configVars, envVars, loadVars, stopRaised, stopAt, visited>>

\* Line 417 and line 472: the list random.choice draws from.
FAST_TRANSITIONS ==
    IF USE_FAST_TRANSITIONS THEN {"slide", "fade"} ELSE AVAILABLE_TRANSITIONS

available_transitions ==
    IF USE_FAST_TRANSITIONS THEN FAST_TRANSITIONS ELSE AVAILABLE_TRANSITIONS

\* Lines 472-474: pick a transition and enter it; random.choice raises on an
\* empty list.
Choose ==
    /\ pc = "choose"
    /\ IF available_transitions = {}
       THEN Raise
       ELSE \E t \in available_transitions :
              IF TransitionRaises(t)
              THEN Raise
              ELSE /\ TransitionBegin(t)
                   /\ pc' = "trans"
                   /\ UNCHANGED <<running, current_slide, handler, slide,
                                  next_index, next_slide, held, vpos, reader,
                                  reloaded>>
    /\ UNCHANGED <<configVars, envVars, loadVars, stopRaised, stopAt, visited>>

\* One frame of the running transition; the events are not polled.
TransFrame ==
    /\ pc = "trans"
    /\ TransitionFrame
    /\ UNCHANGED <<configVars, envVars, loadVars, loopVars, histVars>>

\* The transition function returns.
TransReturn ==
    /\ pc = "trans"
    /\ TransitionDone
    /\ pc' = "advance"
    /\ stopAt' = -1
    /\ UNCHANGED <<configVars, envVars, loadVars, running, current_slide,
                   handler, slide, next_index, next_slide, held, vpos, reader,
                   transVars, stopRaised, reloaded, visited>>

\* Line 479: reader = imageio.get_reader(slide['path']) raises when the file
\* is gone.
VideoOpen ==
    /\ pc = "vopen"
    /\ IF slide.file \in dir
       THEN /\ reader' = "open"
            /\ vpos' = 0
            /\ pc' = "vplay"
            /\ UNCHANGED <<running, current_slide, handler, slide, next_index,
                           next_slide, held, transVars, reloaded>>
       ELSE Raise
    /\ UNCHANGED <<configVars, envVars, loadVars, stopRaised, stopAt, visited>>

\* Lines 480-503: one frame of the video: break when running is cleared,
\* else draw it with the overlays and poll the events.
VideoFrame ==
    /\ pc = "vplay"
    /\ IF vpos < VideoFrames /\ running
       THEN /\ PollEvents
            /\ vpos' = vpos + 1
            /\ frame' = [type |-> "video", step |-> vpos, val |-> <<0, 0>>,
                         calls |-> DrawCalls("video")]
            /\ UNCHANGED pc
       ELSE /\ pc' = "vclose"
            /\ UNCHANGED <<running, events, vpos, frame>>
    /\ UNCHANGED <<configVars, dir, footer_text, modified, loadVars, current_slide,
                   handler, slide, next_index, next_slide, held, reader, trans_type,
                   tstep, blocks, work_surf, histVars>>

\* Decoding or drawing a frame fails.
VideoFrameFails ==
    /\ pc = "vplay"
    /\ vpos < VideoFrames /\ running
    /\ Raise
    /\ UNCHANGED <<configVars, envVars, loadVars, stopRaised, stopAt, visited>>

\* Line 505: reader.close().
VideoClose ==
    /\ pc = "vclose"
    /\ pc' = "advance"
    /\ reader' = "closed"
    /\ UNCHANGED <<configVars, envVars, loadVars, running, current_slide,
                   handler, slide, next_index, next_slide, held, vpos,
                   transVars, histVars>>

\* Line 507: current_slide = (current_slide + 1) % len(slides).
Advance ==
    /\ pc = "advance"
    /\ IF Len(slides) # 0
       THEN /\ current_slide' = NextCursor(current_slide, Len(slides))
            /\ pc' = "loop"
            /\ ResetLocals
            /\ UNCHANGED <<running, handler, reader>>
       ELSE Raise
    /\ UNCHANGED <<configVars, envVars, loadVars, stopRaised, stopAt, visited>>

\* display_error (lines 200-207): draw the message, time.sleep; no polling.
\* Line 509-510: the no-content message, then load_content().
NoContent ==
    /\ pc = "nocontent"
    /\ pc' = "load"
    /\ handler' = "nocontent"
    /\ lpc' = [lpc EXCEPT !["main"] = "start"]
    /\ UNCHANGED <<configVars, envVars, slides, footer_lines, lfiles, logged,
                   running,
                   current_slide, slide, next_index, next_slide, held, vpos, reader,
                   transVars, histVars>>

\* Lines 511-514: log, the error message, then load_content().
Except ==
    /\ pc = "except"
    /\ pc' = "load"
    /\ handler' = "except"
    /\ lpc' = [lpc EXCEPT !["main"] = "start"]
    /\ UNCHANGED <<configVars, envVars, slides, footer_lines, lfiles, logged,
                   running,
                   current_slide, slide, next_index, next_slide, held, vpos, reader,
                   transVars, histVars>>

\* load_content() on the main thread.  A failure of the call at line 510 is
\* inside the try block; a failure of the call at line 514 is inside the
\* except clause and leaves the loop uncaught.
MainLoad ==
    /\ pc = "load"
    /\ \E listable \in BOOLEAN :
         /\ load_content("main", listable)
         /\ pc' = IF lpc["main"] = "start" /\ ~listable
                  THEN (IF handler = "nocontent" THEN "except" ELSE "crashed")
                  ELSE IF LoadReturns("main") THEN "loop" ELSE "load"
    /\ UNCHANGED <<configVars, envVars, running, current_slide, handler,
                   slide, next_index, next_slide, held, vpos, reader, transVars,
                   stopRaised, stopAt, visited>>

\* ------------------------------------------------------- the two programs

\* The configurations the playback loop is run under: normal mode with
\* every transition, and fast mode with two of them configured.
LoopConfigs ==
    { [fast |-> FALSE, halves |-> 2, fps |-> 3, available |-> TransitionNames],
      [fast |-> TRUE, halves |-> 2, fps |-> 3, available |-> {"dissolve", "zoom"}] }

\* The state at line 441: load_content() has run once (line 431), the
\* cursor is 0 and display_startup_message returned True.
InitState ==
    /\ events = FALSE
    /\ footer_lines = <<>>
    /\ logged = [t \in Threads |-> <<>>]
    /\ running = TRUE
    /\ lfiles = [t \in Threads |-> <<>>]
    /\ handler = "none"
    /\ slide = NoSlide
    /\ next_index = 0
    /\ next_slide = NoSlide
    /\ held = 0
    /\ vpos = 0
    /\ reader = "closed"
    /\ trans_type = "none"
    /\ tstep = 0
    /\ blocks = <<>>
    /\ work_surf = {}
    /\ frame = NoFrame
    /\ stopRaised = FALSE
    /\ stopAt = -1
    /\ reloaded = FALSE

Init ==
    /\ \E c \in LoopConfigs :
         /\ USE_FAST_TRANSITIONS = c.fast
         /\ TRANSITION_DURATION = c.halves
         /\ TRANSITION_FPS = c.fps
         /\ AVAILABLE_TRANSITIONS = c.available
    /\ screen_size = <<MinDim, MinDim>>
    /\ dir \in DirSet
    /\ footer_text = <<>>
    /\ modified = FALSE
    /\ slides = CompleteCatalog(dir)
    /\ current_slide = 0
    /\ lpc = [t \in Threads |-> "idle"]
    /\ visited = <<>>
    /\ pc = "loop"
    /\ InitState

MainStep ==
    \/ LoopTest
    \/ EmptyTest
    \/ Select
    \/ Show
    \/ HoldPoll
    \/ HoldEnd
    \/ CalcNext
    \/ ReadNext
    \/ Choose
    \/ TransFrame
    \/ TransReturn
    \/ VideoOpen
    \/ VideoFrame
    \/ VideoFrameFails
    \/ VideoClose
    \/ Advance
    \/ NoContent
    \/ Except
    \/ MainLoad

Environment ==
    /\ pc \notin Terminated
    /\ \/ DirChange
       \/ RaiseStop

Watcher ==
    /\ pc \notin Terminated
    /\ \/ on_modified
       \/ WatcherStep

Next == MainStep \/ Watcher \/ Environment

Spec == Init /\ [][Next]_vars

\* The transition functions on their own: every configuration, screen size
\* and shuffle, one call of one function.
EngineInit ==
    /\ USE_FAST_TRANSITIONS \in BOOLEAN
    /\ TRANSITION_DURATION \in 0..MaxHalves
    /\ TRANSITION_FPS \in 1..MaxFps
    /\ AVAILABLE_TRANSITIONS = TransitionNames
    /\ screen_size \in (MinDim..MaxDim) \X (MinDim..MaxDim)
    /\ dir = {}
    /\ footer_text = <<>>
    /\ modified = FALSE
    /\ slides = <<>>
    /\ current_slide = 0
    /\ lpc = [t \in Threads |-> "idle"]
    /\ visited = <<>>
    /\ pc = "engine"
    /\ InitState

\* TRANSITION_MAP[trans_type](current_surf, next_surf)
EngineCall ==
    /\ pc = "engine"
    /\ trans_type = "none"
    /\ \E t \in TransitionNames :
         IF TransitionRaises(t)
         THEN /\ trans_type' = t
              /\ frame' = [type |-> "ZeroDivisionError", step |-> 0,
                           val |-> <<0, 0>>, calls |-> <<>>]
              /\ UNCHANGED <<tstep, blocks, work_surf>>
         ELSE TransitionBegin(t)
    /\ UNCHANGED <<configVars, envVars, loadVars, loopVars, histVars>>

EngineFrame ==
    /\ pc = "engine"
    /\ trans_type \in TransitionNames
    /\ frame.type # "ZeroDivisionError"
    /\ TransitionFrame
    /\ UNCHANGED <<configVars, envVars, loadVars, loopVars, histVars>>

EngineNext == EngineCall \/ EngineFrame

EngineSpec == EngineInit /\ [][EngineNext]_vars

\* The playback loop with a quiet content directory: no reload, no change
\* of the directory; the main thread keeps being scheduled.
QuietNext == MainStep \/ (pc \notin Terminated /\ RaiseStopAt)

StopSpec == Init /\ [][QuietNext]_vars /\ WF_vars(MainStep)

\* The program while the content directory is changed once, from three
\* slides to one, and then left alone: the observer delivers the one
\* modification event to on_modified, the listing on the watcher thread
\* succeeds, the threads keep being scheduled.
DirShrink ==
    /\ dir = {"a.jpg", "b.png", "c.mp4"}
    /\ dir' = {"a.jpg", "d.jpg"}
    /\ modified' = TRUE
    /\ UNCHANGED <<configVars, events, footer_text, loadVars, loopVars,
                   transVars, histVars>>

EventReload ==
    /\ modified
    /\ modified' = FALSE
    /\ lpc["watcher"] = "idle"
    /\ LoadStart("watcher", TRUE)
    /\ UNCHANGED <<configVars, dir, events, footer_text, loopVars, transVars,
                   stopRaised, stopAt, visited>>

ShrinkWatcher == EventReload \/ WatcherStep

ShrinkNext ==
    \/ MainStep
    \/ pc \notin Terminated /\ DirShrink
    \/ pc \notin Terminated /\ EventReload
    \/ pc \notin Terminated /\ WatcherStep

ShrinkSpec ==
    Init /\ [][ShrinkNext]_vars /\ WF_vars(MainStep) /\ WF_vars(ShrinkWatcher)

\* The configuration of the programs that run no transition.
DefaultConfig ==
    /\ USE_FAST_TRANSITIONS = FALSE
    /\ TRANSITION_DURATION = 2
    /\ TRANSITION_FPS = 3
    /\ AVAILABLE_TRANSITIONS = TransitionNames
    /\ screen_size = <<MinDim, MinDim>>

\* load_content on its own: the call at line 431, before the loop and with
\* the watcher quiet, over every directory and footer file.
LoadInit ==
    /\ DefaultConfig
    /\ dir \in SUBSET { FileNames[i] : i \in 1..Len(FileNames) }
    /\ footer_text \in Texts(MaxFooter) \cup {Undecodable}
    /\ modified = FALSE
    /\ slides = <<>>
    /\ current_slide = 0
    /\ lpc = [t \in Threads |-> IF t = "main" THEN "start" ELSE "idle"]
    /\ visited = <<>>
    /\ pc = "startup"
    /\ InitState

StartupLoad ==
    /\ pc = "startup"
    /\ load_content("main", TRUE)
    /\ pc' = IF LoadReturns("main") THEN "loaded" ELSE "startup"
    /\ UNCHANGED <<configVars, envVars, running, current_slide, handler,
                   slide, next_index, next_slide, held, vpos, reader, transVars,
                   stopRaised, stopAt, visited>>

LoadSpec == LoadInit /\ [][StartupLoad]_vars

\* The cursor on its own: line 507 applied over and over to a catalog that
\* is not replaced, from every index of every catalog length.
Catalog(length) == [k \in 1..length |-> SlideOf(FileNames[((k - 1) % 3) + 1])]

WrapInit ==
    /\ DefaultConfig
    /\ dir = {}
    /\ footer_text = <<>>
    /\ modified = FALSE
    /\ \E length \in 1..MaxCatalog :
         /\ slides = Catalog(length)
         /\ current_slide \in 0..(length - 1)
    /\ lpc = [t \in Threads |-> "idle"]
    /\ visited = <<current_slide>>
    /\ pc = "advance"
    /\ InitState

WrapAdvance ==
    /\ pc = "advance"
    /\ Len(visited) <= Len(slides)
    /\ current_slide' = NextCursor(current_slide, Len(slides))
    /\ visited' = Append(visited, current_slide')
    /\ UNCHANGED <<configVars, envVars, loadVars, running, pc, handler, slide,
                   next_index, next_slide, held, vpos, reader, transVars, stopRaised,
                   stopAt, reloaded>>

WrapSpec == WrapInit /\ [][WrapAdvance]_vars

\* ------------------------------------------------------------------ claims

\* The positions at which the playback loop reads the global slides next:
\* lines 443, 444, 469, 470 and 507.
ReadPoints == {"top", "select", "calc_next", "read_next", "advance"}

\* A rebuild on the watcher thread has emptied slides and has not yet
\* appended every slide it is going to append.
WatcherBuilding ==
    /\ lpc["watcher"] = "scan"
    /\ \E i \in 1..Len(lfiles["watcher"]) : LoadAppends(lfiles["watcher"][i])

\* C1: whenever the playback loop reads the catalog, no rebuild by the
\* watcher thread is part way through filling it: the loop sees a complete
\* catalog, never an empty or partially filled one.
C1_NoTornRead == pc \in ReadPoints => ~WatcherBuilding

\* C2: when the loop is about to read slides[current_slide] from a
\* non-empty catalog that no build is working on, the cursor is within the
\* catalog.
C2_CursorInRange ==
    (pc = "select" /\ slides # <<>> /\ \A t \in Threads : lpc[t] = "idle")
        => current_slide < Len(slides)

\* C3: once a stop event has arrived at step k of a running transition, no
\* frame of that transition with a step index above k + 1 is displayed.
C3_StopAbandonsTransition ==
    (pc = "trans" /\ stopAt >= 0 /\ frame.type \in TransitionNames)
        => frame.step <= stopAt + 1

\* C4: a stop event that has been raised leads to the end of the loop.
C4_StopLeadsToExit == stopRaised ~> (pc \in Terminated)

\* C5: the loop ends only by leaving the while statement with running
\* cleared, never by an error that escapes it.
C5_ExitOnlyOnStop == pc \in Terminated => (pc = "done" /\ ~running)

\* C6: at the reads of len(slides), slides[next_index] and the cursor
\* advance, the catalog is the one the pass read its current slide from:
\* load_content has not written slides in between.  Stated for the states
\* where no build is running and the catalog, complete for the directory
\* and not empty, no longer holds the slide of the pass at the cursor, so
\* that the difference is one the loop can see.
C6_OneCatalogPerPass ==
    (/\ pc \in {"calc_next", "read_next", "advance"}
     /\ \A t \in Threads : lpc[t] = "idle"
     /\ slides # <<>> /\ slides = CompleteCatalog(dir)
     /\ ~(current_slide < Len(slides) /\ slides[current_slide + 1] = slide))
        => ~reloaded

\* C7: when transition_dissolve has displayed its last step, the working
\* buffer holds next_surf at every pixel of the screen.
C7_DissolveCoversFrame ==
    (trans_type = "dissolve" /\ frame.type = "dissolve" /\ TransitionDone)
        => work_surf = Pixels(screen_size)

PureToFrame ==
    CASE frame.type = "fade" -> frame.val[1] = 0
      [] frame.type = "slide" -> frame.val[1] = frame.val[2]
      [] frame.type = "dissolve" -> work_surf = Pixels(screen_size)
      [] frame.type = "zoom" -> frame.val[1] = 0
      [] OTHER -> FALSE

\* C9: with a step count of 1 the single frame a transition displays is
\* next_surf alone.
C9_SingleStepShowsToFrame ==
    (~USE_FAST_TRANSITIONS /\ Steps = 1 /\ frame.type \in TransitionNames
        /\ TransitionDone)
        => PureToFrame

\* C10: a transition function that has been called divides by no zero step
\* count and has displayed at least one frame when it returns.
C10_AtLeastOneStep ==
    trans_type \in TransitionNames
        => /\ frame.type # "ZeroDivisionError"
           /\ (TransitionDone => tstep >= 1)

\* C11: a transition function runs only between two image slides of a
\* catalog of at least two slides, never from a slide to itself.
C11_TransitionNeedsTwoImages ==
    pc = "trans" => /\ slide.type = "image"
                    /\ next_slide.type = "image"
                    /\ Len(slides) >= 2

\* C12: when the cursor has been advanced len(slides) times over one
\* catalog it is back at the index it started from, and the indices it
\* held on the way are all the indices of the catalog, each once.
C12_CursorWraps ==
    Len(visited) = Len(slides) + 1
        => /\ visited[Len(visited)] = visited[1]
           /\ { visited[k] : k \in 1..Len(slides) } = 0..(Len(slides) - 1)
           /\ \A j, k \in 1..Len(slides) : visited[j] = visited[k] => j = k

\* The cursor has gone round a catalog of at least three slides from an
\* index other than 0.
C12_Witness ==
    /\ Len(visited) = Len(slides) + 1
    /\ Len(slides) >= 3
    /\ visited[1] > 0

\* The listed names that load as a slide, and those that fail to.
C13_Valid(f) == f \in {"a.jpg", "b.png", "c.mp4", "f.png"}
C13_Invalid(f) == f \in {"d.jpg", "e.mp4"}

\* C13: when load_content has scanned a listing, the catalog holds the
\* valid image and video files of the listing in the listing's sorted
\* order, each with its type, and one error has been logged for each
\* invalid file and for no other name.
C13_BuildSkipsInvalid ==
    (pc = "startup" /\ LoadReturns("main"))
        => /\ [i \in 1..Len(slides) |-> slides[i].file]
                = SelectSeq(SortedListing(dir), C13_Valid)
           /\ \A i \in 1..Len(slides) :
                slides[i].type = (IF slides[i].file = "c.mp4" THEN "video" ELSE "image")
           /\ logged["main"] = SelectSeq(SortedListing(dir), C13_Invalid)

\* A listing with valid files before and after invalid ones has been
\* scanned to its end.
C13_Witness ==
    /\ pc = "startup" /\ LoadReturns("main")
    /\ {"a.jpg", "d.jpg", "e.mp4", "f.png", "footer.txt"} \subseteq dir

\* C14: when the rebuild of the no-content branch is about to return
\* with a complete, non-empty catalog and no reload running, the cursor is
\* within the catalog, so that the next pass shows slides[current_slide].
C14_NoContentRecovers ==
    (/\ pc = "load" /\ handler = "nocontent" /\ LoadReturns("main")
     /\ lpc["watcher"] = "idle"
     /\ slides # <<>> /\ slides = CompleteCatalog(dir))
        => current_slide < Len(slides)

\* C20: after an error has been caught the loop comes to display a slide
\* again (the hold of an image, a frame of a video), unless it finds the
\* catalog empty or ends.
C20_ErrorRecovers ==
    (pc = "except") ~> (pc \in {"hold", "vplay", "nocontent"} \cup Terminated)

\* The position of a file name in the sorted listing.
FileIndex(f) == CHOOSE i \in 1..Len(FileNames) : FileNames[i] = f

\* C15: builds do not overlap, so that when no build is running the
\* catalog holds the files of one build: in the listing's order, no file
\* twice.
C15_BuildsDoNotMix ==
    (\A t \in Threads : lpc[t] = "idle")
        => \A i, j \in 1..Len(slides) :
             i < j => FileIndex(slides[i].file) < FileIndex(slides[j].file)

\* render_overlays is called once the content is drawn and before the one
\* flip that ends the frame.
OverlaidBeforeFlip(calls) ==
    \E i \in 1..Len(calls) :
        /\ calls[i] = "render_overlays"
        /\ \A j \in 1..Len(calls) : calls[j] \in {"blit", "fill"} => j < i
        /\ \A j \in 1..Len(calls) : calls[j] = "flip" <=> j = Len(calls)
        /\ i < Len(calls)

\* C16: every frame of an image, of a video and of a transition step has
\* the overlays rendered after its content and before it is flipped.
C16_OverlaysOnEveryFrame ==
    frame.type \in {"image", "video"} \cup TransitionNames
        => OverlaidBeforeFlip(frame.calls)

\* The second frame of a transition has been displayed after an image and,
\* in the same catalog, a video comes next.
C16_Witness ==
    /\ pc = "trans" /\ frame.type \in TransitionNames /\ frame.step = 1
    /\ Len(slides) = 3 /\ slides[3].type = "video"

\* C17: the transition that runs is one the configuration enables.
C17_TransitionIsEnabled ==
    pc = "trans" => trans_type \in AVAILABLE_TRANSITIONS

\* The text split at its newlines, and of those lines the ones that hold a
\* printing character.
C18_NonBlankLines(text) ==
    SelectSeq(SplitLines(text), LAMBDA line : \E i \in 1..Len(line) : line[i] = "x")

\* C18: after load_content has read footer.txt, footer_lines holds one
\* line for each non-blank line of the file, in the file's order: the k-th
\* footer line and the k-th non-blank line have the same text between
\* their surrounding blanks.
C18_FooterKeepsNonBlankLines ==
    (pc = "loaded" /\ "footer.txt" \in dir /\ footer_text # Undecodable)
        => /\ Len(footer_lines) = Len(C18_NonBlankLines(footer_text))
           /\ \A k \in 1..Len(footer_lines) :
                Strip(footer_lines[k]) = Strip(C18_NonBlankLines(footer_text)[k])

\* A footer.txt with a blank line between two non-blank lines has been
\* read.
C18_Witness ==
    /\ pc = "loaded" /\ "footer.txt" \in dir
    /\ footer_text = <<"x", "\n", "\n", "x">>
    /\ Len(footer_lines) = 2

\* C19: the pass of an image slide ends by setting the cursor to the
\* index whose slide it read as next slide, the one it ran the transition
\* to or found to be a video.  Stated for the advances made while no build
\* is running and the catalog is complete for the directory.
C19_CursorFollowsNextSlide ==
    [][(/\ pc = "advance" /\ pc' = "loop" /\ slide.type = "image"
        /\ \A t \in Threads : lpc[t] = "idle"
        /\ slides = CompleteCatalog(dir))
          => current_slide' = next_index]_vars

\* C21: outside the video branch no decoder the loop has opened is still
\* open: reader.close() has run on every way out of the playback of a
\* video.
C21_DecoderClosed ==
    pc \notin {"vplay", "vclose"} => reader # "open"

====
